---- MODULE Spec2Model ----
(***************************************************************************)
(* A model of dhv-fragen.py: the conversion of the DHV question PDFs to a  *)
(* tab-separated flashcard file.  Text is modelled as sequences of         *)
(* one-character strings, so that the regular expressions, the whitespace  *)
(* normalisation, the number formatting and the escaping of the program    *)
(* are computed character by character.                                    *)
(***************************************************************************)
EXTENDS Integers, Sequences, FiniteSets, TLC

VARIABLES
    \* construct_correct_answer_list
    answer_group,          \* the accumulator of matched letters
    answer_list,           \* the indices collected so far
    ans_pc,                \* "idle", "loop", "returned" or "KeyError"
    ans_ret,               \* what the function returned, if it did
    matched,               \* every letter matched so far, in input order
    \* parse_text_from_pdf
    blocks,                \* the question blocks the text file was written from
    lines,                 \* lines of the file read (fh.readlines())
    line_no,               \* how many of them the loop has consumed
    current_section,
    last_question_number,
    state,
    current_q,
    question_list,
    parse_pc,              \* "idle", "loop", "returned" or "AssertionError"
    parse_ret,             \* what the function returned, if it did
    n_cont,                \* how many lines were appended to a field
    \* create_output_matrix
    m_question_list,       \* the argument question_list
    correct_answers,
    filetype_map,
    result,
    m_i,                   \* how many iterations of the loop are done
    m_pc,                  \* "idle", "assert", "loop", "returned" or the exception
    m_ret,                 \* what the function returned, if it did
    \* create_output_matrix.escape
    esc_in,                \* the string escape is first called with
    esc_out,               \* the result of each successive call
    \* extract_images
    staged,                \* sorted(os.listdir(images_dir)) after pdfimages ran
    image_numbers,         \* the argument: the identifiers of the appendix text
    image_index,
    x_filetype_map,        \* the catalog being built
    x_i,                   \* how many staged files the loop has handled
    images_dir,            \* the directory: file name -> staged file it holds
    renamed,               \* every rename or conversion done, in order
    x_pc,                  \* "idle", "loop", "returned" or the exception
    x_ret,                 \* what the function returned, if it did
    \* main and process_files
    pictures_pdf,          \* the argument: "-" when no pictures are processed
    main_pc,               \* the statement the run is at, "done" or "aborted"
    stages,                \* the functions called so far, in order
    failures,              \* the tools that failed and the exceptions raised
    qpdf_rc,               \* the exit code of qpdf (-1 before it ran)
    n_answers,             \* len(correct_answers)
    n_questions,           \* len(question_list)
    needs_image,           \* a question has an image number
    catalog_has_image,     \* filetype_map holds that image number
    matrix_rows,           \* len(matrix)
    tsv_open,              \* the output file has been opened for writing
    tsv_rows               \* the rows written to it

answerVars == <<answer_group, answer_list, ans_pc, ans_ret, matched>>

parseVars ==
    <<blocks, lines, line_no, current_section, last_question_number, state,
      current_q, question_list, parse_pc, parse_ret, n_cont>>

matrixVars ==
    <<m_question_list, correct_answers, filetype_map, result, m_i, m_pc, m_ret>>

escapeVars == <<esc_in, esc_out>>

imageVars ==
    <<staged, image_numbers, image_index, x_filetype_map, x_i, images_dir,
      renamed, x_pc, x_ret>>

mainVars ==
    <<pictures_pdf, main_pc, stages, failures, qpdf_rc, n_answers, n_questions,
      needs_image, catalog_has_image, matrix_rows, tsv_open, tsv_rows>>

notMainVars == <<answerVars, parseVars, matrixVars, escapeVars, imageVars>>

vars == <<answerVars, parseVars, matrixVars, escapeVars, imageVars, mainVars>>

----------------------------------------------------------------------------
(* Bounds of the model.                                                    *)

\* At most this many checkbox lines are matched in one scan.
MaxMatched == 9

\* At most this many question headers are recognised in a free line sequence,
\* and at most this many lines are appended to a field.
MaxQ == 2

MaxCont == 1

\* At most this many question blocks make up a well-formed document.
MaxBlocks == 5

\* At most this many questions, and this many answer-key entries, are handed
\* to create_output_matrix.
MaxRows == 2

\* escape is called with every string of up to this many characters.
MaxStr == 4

\* At most this many identifiers are recovered from the appendix text.
MaxIds == 3

\* In a whole run the question list and the answer key have at most this
\* many entries.
MaxCount == 2

----------------------------------------------------------------------------
(* Text helpers: str.strip, re prefix tests, int() and "%d".               *)

Digits == <<"0", "1", "2", "3", "4", "5", "6", "7", "8", "9">>

IsDigit(c) == \E k \in 1..10 : Digits[k] = c

DigitVal(c) == (CHOOSE k \in 1..10 : Digits[k] = c) - 1

IsSpace(c) == c \in {" ", "\n", "\t"}

Drop(s, n) == SubSeq(s, n + 1, Len(s))

StartsWith(s, p) == Len(s) >= Len(p) /\ SubSeq(s, 1, Len(p)) = p

RECURSIVE LStrip(_)
LStrip(s) == IF s # <<>> /\ IsSpace(s[1]) THEN LStrip(Tail(s)) ELSE s

RECURSIVE RStrip(_)
RStrip(s) ==
    IF s # <<>> /\ IsSpace(s[Len(s)]) THEN RStrip(SubSeq(s, 1, Len(s) - 1)) ELSE s

\* str.strip(): leading and trailing whitespace removed
Strip(s) == RStrip(LStrip(s))

\* the length of the longest prefix of s made of digits (a greedy \d+)
RECURSIVE DigitRun(_)
DigitRun(s) == IF s # <<>> /\ IsDigit(s[1]) THEN 1 + DigitRun(Tail(s)) ELSE 0

\* int() of a non-empty string of digits
RECURSIVE ParseInt(_)
ParseInt(ds) ==
    IF ds = <<>> THEN 0
    ELSE 10 * ParseInt(SubSeq(ds, 1, Len(ds) - 1)) + DigitVal(ds[Len(ds)])

\* "%d" % n for n >= 0
RECURSIVE FmtInt(_)
FmtInt(n) ==
    IF n < 10 THEN <<Digits[n + 1]>>
    ELSE Append(FmtInt(n \div 10), Digits[(n % 10) + 1])

\* "%03d" % n for n >= 0: at least three digits, padded with zeros
FmtInt03(n) ==
    LET d == FmtInt(n)
    IN  [k \in 1..(IF Len(d) < 3 THEN 3 - Len(d) ELSE 0) |-> "0"] \o d

----------------------------------------------------------------------------
(* construct_correct_answer_list                                           *)

BoxPrefix == <<"4", "2", ".", "5", "2", " ">>

BoxSuffix == <<" ", "8", ".", "5", "0", " ", "-", "8", ".", "5", "0", " ", "r", "e", " ">>

\* re.match(r"42\.52 \d+\.\d+ 8\.50 -8\.50 re ([BS])", line.strip()):
\* the letter of group 1, or "" when the line does not match.
MatchBox(line) ==
    LET t  == Strip(line)
        t1 == Drop(t, Len(BoxPrefix))
        d1 == DigitRun(t1)
        t2 == Drop(t1, d1)
        t3 == Drop(t2, 1)
        d2 == DigitRun(t3)
        t4 == Drop(t3, d2)
        t5 == Drop(t4, Len(BoxSuffix))
    IN  IF /\ StartsWith(t, BoxPrefix)
           /\ d1 > 0
           /\ StartsWith(t2, <<".">>)
           /\ d2 > 0
           /\ StartsWith(t4, BoxSuffix)
           /\ t5 # <<>>
           /\ t5[1] \in {"B", "S"}
        THEN t5[1]
        ELSE ""

\* answer_map = dict(BSSS=0, SBSS=1, SSBS=2, SSSB=3)
AnswerMapSwapped ==
    (<<"B", "S", "S", "S">> :> 0) @@ (<<"S", "B", "S", "S">> :> 2) @@
    (<<"S", "S", "B", "S">> :> 1) @@ (<<"S", "S", "S", "B">> :> 3)

AnswerMap ==
    (<<"B", "S", "S", "S">> :> 0) @@ (<<"S", "B", "S", "S">> :> 1) @@
    (<<"S", "S", "B", "S">> :> 2) @@ (<<"S", "S", "S", "B">> :> 3)

\* The lines of the decompressed PDF the scan is fed: filled and empty
\* boxes (with and without surrounding whitespace) and lines that are not
\* checkbox rectangles.
BoxLines ==
    { <<"4", "2", ".", "5", "2", " ", "7", "0", "0", ".", "1", "5", " ", "8", ".", "5", "0", " ", "-", "8", ".", "5", "0", " ", "r", "e", " ", "B", "\n">>,
      <<"4", "2", ".", "5", "2", " ", "1", "2", ".", "5", " ", "8", ".", "5", "0", " ", "-", "8", ".", "5", "0", " ", "r", "e", " ", "S", "\n">>,
      <<" ", " ", "4", "2", ".", "5", "2", " ", "1", ".", "0", " ", "8", ".", "5", "0", " ", "-", "8", ".", "5", "0", " ", "r", "e", " ", "S", " ", "\n">>,
      <<"4", "2", ".", "5", "2", " ", "1", ".", "0", " ", "8", ".", "5", "0", " ", "-", "8", ".", "5", "0", " ", "r", "e", " ", "f", "\n">>,
      <<"4", "2", ".", "5", "2", " ", "1", "0", " ", "8", ".", "5", "0", " ", "-", "8", ".", "5", "0", " ", "r", "e", " ", "B", "\n">>,
      <<"B", "T", "\n">> }

NotReturned == [returned |-> FALSE, value |-> <<>>]

AnswersIdle ==
    /\ answer_group = <<>>
    /\ answer_list = <<>>
    /\ ans_pc = "idle"
    /\ ans_ret = NotReturned
    /\ matched = <<>>

\* lines 80-83: the state before the first line is read
AnswersInit ==
    /\ answer_group = <<>>
    /\ answer_list = <<>>
    /\ ans_pc = "loop"
    /\ ans_ret = NotReturned
    /\ matched = <<>>

\* a scan in which a line that is no checkbox empties the accumulator
AnswerLineReset(line) ==
    LET m     == MatchBox(line)
        group == IF m # "" THEN Append(answer_group, m) ELSE <<>>
    IN  /\ ans_pc = "loop"
        /\ m # "" => Len(matched) < MaxMatched
        /\ matched' = IF m # "" THEN Append(matched, m) ELSE matched
        /\ IF Len(group) = 4
           THEN IF group \in DOMAIN AnswerMap
                THEN /\ answer_list' = Append(answer_list, AnswerMap[group])
                     /\ answer_group' = <<>>
                     /\ ans_pc' = "loop"
                ELSE /\ answer_list' = answer_list
                     /\ answer_group' = group
                     /\ ans_pc' = "KeyError"
           ELSE /\ answer_list' = answer_list
                /\ answer_group' = group
                /\ ans_pc' = "loop"
        /\ ans_ret' = ans_ret

\* lines 84-94: one iteration of the loop over the lines of the file
AnswerLine(line) ==
    LET m     == MatchBox(line)
        group == IF m # "" THEN Append(answer_group, m) ELSE answer_group
    IN  /\ ans_pc = "loop"
        /\ m # "" => Len(matched) < MaxMatched
        /\ matched' = IF m # "" THEN Append(matched, m) ELSE matched
        /\ IF Len(group) = 4
           THEN IF group \in DOMAIN AnswerMap
                THEN /\ answer_list' = Append(answer_list, AnswerMap[group])
                     /\ answer_group' = <<>>
                     /\ ans_pc' = "loop"
                ELSE \* answer_map[answer_group] raises KeyError
                     /\ answer_list' = answer_list
                     /\ answer_group' = group
                     /\ ans_pc' = "KeyError"
           ELSE /\ answer_list' = answer_list
                /\ answer_group' = group
                /\ ans_pc' = "loop"
        /\ ans_ret' = ans_ret

\* line 95: the end of the file is reached and the list is returned
AnswersReturn ==
    /\ ans_pc = "loop"
    /\ ans_pc' = "returned"
    /\ ans_ret' = [returned |-> TRUE, value |-> answer_list]
    /\ UNCHANGED <<answer_group, answer_list, matched>>

----------------------------------------------------------------------------
(* parse_text_from_pdf                                                     *)

Abbildung == <<"A", "b", "b", "i", "l", "d", "u", "n", "g", " ">>

\* the string without its leading spaces (the " *" of the patterns)
RECURSIVE SkipSpaces(_)
SkipSpaces(s) == IF s # <<>> /\ s[1] = " " THEN SkipSpaces(Tail(s)) ELSE s

\* re.sub(" +", " ", s): every run of spaces becomes one space
RECURSIVE CollapseSpaces(_)
CollapseSpaces(s) ==
    IF s = <<>> THEN <<>>
    ELSE IF s[1] = " " THEN <<" ">> \o CollapseSpaces(SkipSpaces(s))
    ELSE <<s[1]>> \o CollapseSpaces(Tail(s))

\* line 123: line = re.sub(" +", " ", line_raw.strip())
NormLine(line_raw) == CollapseSpaces(Strip(line_raw))

NoMatch == [ok |-> FALSE, g1 |-> <<>>, g2 |-> <<>>]

\* the pattern without the space after the bracket: r"^(\d+)\)(.*)$"
MatchHeaderNoSpace(line) ==
    LET d == DigitRun(line)
    IN  IF d > 0 /\ StartsWith(Drop(line, d), <<")">>)
        THEN [ok |-> TRUE, g1 |-> SubSeq(line, 1, d), g2 |-> Drop(line, d + 1)]
        ELSE NoMatch

\* line 125: re.match(r"^(\d+)\) (.*)$", line)
MatchHeader(line) ==
    LET d == DigitRun(line)
    IN  IF d > 0 /\ StartsWith(Drop(line, d), <<")", " ">>)
        THEN [ok |-> TRUE, g1 |-> SubSeq(line, 1, d), g2 |-> Drop(line, d + 2)]
        ELSE NoMatch

\* line 133: re.match(r"^Abbildung (\d+): *(.*)$", q_text)
MatchAbbildung(q_text) ==
    LET t1 == Drop(q_text, Len(Abbildung))
        d  == DigitRun(t1)
        t2 == Drop(t1, d)
    IN  IF StartsWith(q_text, Abbildung) /\ d > 0 /\ StartsWith(t2, <<":">>)
        THEN [ok |-> TRUE, g1 |-> SubSeq(t1, 1, d), g2 |-> SkipSpaces(Drop(t2, 1))]
        ELSE NoMatch

\* the pattern without its " *": r"^A\)(.*)$"
MatchLetterKeepSpace(letter, line) ==
    IF StartsWith(line, <<letter, ")">>)
    THEN [ok |-> TRUE, g1 |-> Drop(line, 2), g2 |-> <<>>]
    ELSE NoMatch

\* any of the four letters taken as the marker: r"^[A-D]\) *(.*)$"
MatchAnyLetter(letter, line) ==
    IF line # <<>> /\ line[1] \in {"A", "B", "C", "D"} /\ StartsWith(Tail(line), <<")">>)
    THEN [ok |-> TRUE, g1 |-> SkipSpaces(Drop(line, 2)), g2 |-> <<>>]
    ELSE NoMatch

\* lines 148, 156, 164, 172: re.match(r"^A\) *(.*)$", line) and its siblings
MatchLetter(letter, line) ==
    IF StartsWith(line, <<letter, ")">>)
    THEN [ok |-> TRUE, g1 |-> SkipSpaces(Drop(line, 2)), g2 |-> <<>>]
    ELSE NoMatch

\* a failed assert: the exception leaves the function, nothing is returned
AssertFails ==
    /\ parse_pc' = "AssertionError"
    /\ UNCHANGED <<current_section, last_question_number, state, current_q,
                   question_list, n_cont>>

\* lines 130-131: the section the new question belongs to
NextSectionLe(q_number) ==
    IF q_number <= last_question_number
    THEN current_section + 1
    ELSE current_section

NextSection(q_number) ==
    IF q_number < last_question_number
    THEN current_section + 1
    ELSE current_section

\* lines 140-142: "%d.%d. %s" % (current_section, q_number, q_text)
ComposeText(section, q_number, q_text) ==
    FmtInt(section) \o <<".">> \o FmtInt(q_number) \o <<".", " ">> \o q_text

\* lines 124-145: a line read between questions
StepIgnore(line) ==
    LET match == MatchHeader(line)
    IN  IF ~match.ok
        THEN UNCHANGED <<current_section, last_question_number, state,
                         current_q, question_list, parse_pc, n_cont>>
        ELSE IF Len(current_q) # 0
        THEN AssertFails
        ELSE LET q_number   == ParseInt(match.g1)
                 section    == NextSection(q_number)
                 q_match    == MatchAbbildung(match.g2)
                 img_number == IF q_match.ok THEN ParseInt(q_match.g1) ELSE 0
                 q_text     == IF q_match.ok THEN q_match.g2 ELSE match.g2
             IN  /\ current_section' = section
                 /\ current_q' = <<ComposeText(section, q_number, q_text), img_number>>
                 /\ state' = "question"
                 /\ last_question_number' = q_number
                 /\ UNCHANGED <<question_list, parse_pc, n_cont>>

\* The shape the branches of lines 146-177 share: n fields are expected; the
\* marker of the next field seeds it and advances the state, any other line
\* is appended to the field at (1-based) position k.
MarkerStep(line, n, letter, next, k) ==
    LET match == MatchLetter(letter, line)
    IN  IF Len(current_q) # n
        THEN AssertFails
        ELSE /\ IF match.ok
                THEN /\ current_q' = Append(current_q, match.g1)
                     /\ state' = next
                     /\ n_cont' = n_cont
                ELSE /\ current_q' = [current_q EXCEPT ![k] = @ \o <<" ">> \o line]
                     /\ state' = state
                     /\ n_cont' = n_cont + 1
             /\ UNCHANGED <<current_section, last_question_number,
                            question_list, parse_pc>>

\* lines 146-153
StepQuestion(line) == MarkerStep(line, 2, "A", "answer_a", 1)

\* lines 154-161
StepAnswerA(line) == MarkerStep(line, 3, "B", "answer_b", 3)

\* lines 162-169
StepAnswerB(line) == MarkerStep(line, 4, "C", "answer_c", 4)

\* lines 170-177
StepAnswerC(line) == MarkerStep(line, 5, "D", "answer_d", 5)

\* lines 178-185, with line 183 (current_q = []) left out
StepAnswerDKeep(line) ==
    IF Len(current_q) # 6
    THEN AssertFails
    ELSE /\ IF line = <<>>
            THEN /\ state' = "ignore"
                 /\ question_list' = Append(question_list, current_q)
                 /\ current_q' = current_q
                 /\ n_cont' = n_cont
            ELSE /\ current_q' = [current_q EXCEPT ![6] = @ \o <<" ">> \o line]
                 /\ UNCHANGED <<state, question_list>>
                 /\ n_cont' = n_cont + 1
         /\ UNCHANGED <<current_section, last_question_number, parse_pc>>

\* lines 178-185
StepAnswerD(line) ==
    IF Len(current_q) # 6
    THEN AssertFails
    ELSE /\ IF line = <<>>
            THEN /\ state' = "ignore"
                 /\ question_list' = Append(question_list, current_q)
                 /\ current_q' = <<>>
                 /\ n_cont' = n_cont
            ELSE /\ current_q' = [current_q EXCEPT ![6] = @ \o <<" ">> \o line]
                 /\ UNCHANGED <<state, question_list>>
                 /\ n_cont' = n_cont + 1
         /\ UNCHANGED <<current_section, last_question_number, parse_pc>>

\* lines 122-185: one iteration of the loop over the lines
ParseLine(line_raw) ==
    LET line == NormLine(line_raw)
    IN  /\ parse_pc = "loop"
        /\ CASE state = "ignore"   -> StepIgnore(line)
             [] state = "question" -> StepQuestion(line)
             [] state = "answer_a" -> StepAnswerA(line)
             [] state = "answer_b" -> StepAnswerB(line)
             [] state = "answer_c" -> StepAnswerC(line)
             [] state = "answer_d" -> StepAnswerD(line)
        /\ parse_ret' = parse_ret

\* a return that closes the block still open in its last option
ParseReturnFlush ==
    /\ parse_pc = "loop"
    /\ parse_pc' = "returned"
    /\ parse_ret' = [returned |-> TRUE,
                     value |-> IF state = "answer_d"
                               THEN Append(question_list, current_q)
                               ELSE question_list]
    /\ UNCHANGED <<current_section, last_question_number, state, current_q,
                   question_list, n_cont>>

\* line 187: return question_list
ParseReturn ==
    /\ parse_pc = "loop"
    /\ parse_pc' = "returned"
    /\ parse_ret' = [returned |-> TRUE, value |-> question_list]
    /\ UNCHANGED <<current_section, last_question_number, state, current_q,
                   question_list, n_cont>>

\* lines 116-120: the state before the first line is read
ParserStart ==
    /\ current_section = 1
    /\ last_question_number = 0
    /\ state = "ignore"
    /\ current_q = <<>>
    /\ question_list = <<>>
    /\ parse_pc = "loop"
    /\ parse_ret = NotReturned
    /\ n_cont = 0

ParserIdle ==
    /\ blocks = <<>>
    /\ lines = <<>>
    /\ line_no = 0
    /\ current_section = 1
    /\ last_question_number = 0
    /\ state = "ignore"
    /\ current_q = <<>>
    /\ question_list = <<>>
    /\ parse_pc = "idle"
    /\ parse_ret = NotReturned
    /\ n_cont = 0

\* The lines a free line sequence is drawn from: two headers (the second
\* indented, with runs of spaces and an image reference), the four option
\* markers (one indented with runs of spaces, one with an empty text), a blank
\* line and a number with no text after it.
RawLines ==
    { <<"1", ")", " ", "x", "\n">>,
      <<" ", "2", ")", " ", " ", "A", "b", "b", "i", "l", "d", "u", "n", "g", " ", "3", ":", " ", " ", "y", "\n">>,
      <<"A", ")", " ", "a", "\n">>,
      <<" ", "B", ")", " ", " ", "b", " ", " ", "b", "\n">>,
      <<"C", ")", "\n">>,
      <<"D", ")", " ", "d", "\n">>,
      <<"\n">>,
      <<"1", ")", "\n">> }

\* how many question headers have been recognised
Started == Len(question_list) + (IF state = "ignore" THEN 0 ELSE 1)

\* The fields of the question blocks a well-formed document is written from.
BlockFields ==
    { [num |-> <<"1">>, text |-> <<"x">>,
       a |-> <<"a">>, b |-> <<"b">>, c |-> <<"c">>, d |-> <<"d">>],
      [num |-> <<"2">>, text |-> <<"y", " ", " ", "z">>,
       a |-> <<"a", " ">>, b |-> <<" ", "b", " ", " ", "b">>, c |-> <<>>, d |-> <<"d">>],
      [num |-> <<"3">>, text |-> <<"x">>,
       a |-> <<"d">>, b |-> <<"c">>, c |-> <<"b">>, d |-> <<"a">>],
      [num |-> <<"0", "2">>, text |-> Abbildung \o <<"3", ":", " ", "w">>,
       a |-> <<"a">>, b |-> <<"b">>, c |-> <<"c">>, d |-> <<"d">>] }

\* the six lines of one block: header, options A to D, blank line
RenderBlock(f) ==
    << f.num \o <<")", " ">> \o f.text \o <<"\n">>,
       <<"A", ")", " ">> \o f.a \o <<"\n">>,
       <<"B", ")", " ">> \o f.b \o <<"\n">>,
       <<"C", ")", " ">> \o f.c \o <<"\n">>,
       <<"D", ")", " ">> \o f.d \o <<"\n">>,
       <<"\n">> >>

RECURSIVE Render(_)
Render(bs) == IF bs = <<>> THEN <<>> ELSE RenderBlock(Head(bs)) \o Render(Tail(bs))

\* The fields of the question blocks a document with image references is
\* written from: a reference to the figure 0, one to the figure 3, none.
RefBlocks ==
    { [num |-> <<"1">>, text |-> Abbildung \o <<"0", ":", " ", "w">>,
       a |-> <<"a">>, b |-> <<"b">>, c |-> <<"c">>, d |-> <<"d">>],
      [num |-> <<"2">>, text |-> Abbildung \o <<"3", ":", " ", "w">>,
       a |-> <<"a">>, b |-> <<"b">>, c |-> <<"c">>, d |-> <<"d">>],
      [num |-> <<"3">>, text |-> <<"x">>,
       a |-> <<"a">>, b |-> <<"b">>, c |-> <<"c">>, d |-> <<"d">>] }

\* Catalogs as extract_images builds them when the appendix shows no figure,
\* the figure 3, or the figures 0 and 3.
RefCatalogs ==
    { [n \in {} |-> <<>>],
      (3 :> <<"p", "n", "g">>),
      (0 :> <<"j", "p", "g">>) @@ (3 :> <<"p", "n", "g">>) }

----------------------------------------------------------------------------
(* create_output_matrix                                                    *)

\* string.replace("\\", "")
RECURSIVE RemoveBackslashes(_)
RemoveBackslashes(s) ==
    IF s = <<>> THEN <<>>
    ELSE IF s[1] = "\\" THEN RemoveBackslashes(Tail(s))
    ELSE <<s[1]>> \o RemoveBackslashes(Tail(s))

\* string.replace('"', r"\"")
RECURSIVE EscapeQuotes(_)
EscapeQuotes(s) ==
    IF s = <<>> THEN <<>>
    ELSE IF s[1] = "\"" THEN <<"\\", "\"">> \o EscapeQuotes(Tail(s))
    ELSE <<s[1]>> \o EscapeQuotes(Tail(s))

\* escape without its first replace: existing backslashes are kept
EscapeKeepBackslashes(string) == EscapeQuotes(string)

\* lines 197-200
Escape(string) == EscapeQuotes(RemoveBackslashes(string))

\* lines 285-286: "DHV-Fragen-Abbildung-%03d" % image_number
make_image_name(image_number) ==
    <<"D", "H", "V", "-", "F", "r", "a", "g", "e", "n", "-",
      "A", "b", "b", "i", "l", "d", "u", "n", "g", "-">> \o FmtInt03(image_number)

\* lines 209-213: '<img src="%s.%s" alt="Abbildung %d"><br>'
ImgHtml(img_number, suffix) ==
    <<"<", "i", "m", "g", " ", "s", "r", "c", "=", "\"">>
    \o make_image_name(img_number) \o <<".">> \o suffix
    \o <<"\"", " ", "a", "l", "t", "=", "\"">> \o Abbildung \o FmtInt(img_number)
    \o <<"\"", ">", "<", "b", "r", ">">>

\* answers.pop(correct_index) taken with a 1-based index
PopOffByOne(answers, correct_index) ==
    LET k == IF correct_index = 0 THEN Len(answers) ELSE correct_index
    IN  [popped |-> answers[k],
         rest |-> SubSeq(answers, 1, k - 1) \o SubSeq(answers, k + 1, Len(answers))]

\* line 207: answers.pop(correct_index), for 0 <= correct_index < len(answers)
Pop(answers, correct_index) ==
    [popped |-> answers[correct_index + 1],
     rest |-> SubSeq(answers, 1, correct_index)
              \o SubSeq(answers, correct_index + 2, Len(answers))]

\* a lookup that falls back on "png" for an identifier the catalog lacks
LookupOrPng(img_number) ==
    IF img_number \in DOMAIN filetype_map
    THEN [found |-> TRUE, suffix |-> filetype_map[img_number]]
    ELSE [found |-> TRUE, suffix |-> <<"p", "n", "g">>]

\* line 211: filetype_map[img_number], a KeyError when the key is absent
Lookup(img_number) ==
    IF img_number \in DOMAIN filetype_map
    THEN [found |-> TRUE, suffix |-> filetype_map[img_number]]
    ELSE [found |-> FALSE, suffix |-> <<>>]

\* the assert left out: the loop is entered whatever the lengths
MatrixAssertSkipped ==
    /\ m_pc = "assert"
    /\ m_pc' = "loop"
    /\ UNCHANGED <<m_question_list, correct_answers, filetype_map, result,
                   m_i, m_ret>>

\* line 195: assert len(question_list) == len(correct_answers)
MatrixAssert ==
    /\ m_pc = "assert"
    /\ m_pc' = IF Len(m_question_list) = Len(correct_answers)
               THEN "loop"
               ELSE "AssertionError"
    /\ UNCHANGED <<m_question_list, correct_answers, filetype_map, result,
                   m_i, m_ret>>

\* lines 203-217: one iteration of the loop
MatrixRow ==
    /\ m_pc = "loop"
    /\ m_i < Len(m_question_list)
    /\ IF m_i >= Len(correct_answers)
       THEN \* correct_answers[i] raises IndexError
            /\ m_pc' = "IndexError"
            /\ UNCHANGED <<result, m_i>>
       ELSE LET q          == m_question_list[m_i + 1]
                question   == q[1]
                img_number == q[2]
                pop        == Pop(<<q[3], q[4], q[5], q[6]>>, correct_answers[m_i + 1])
                found      == Lookup(img_number)
                answers    == [k \in 1..3 |-> Escape(pop.rest[k])]
            IN  IF img_number # 0 /\ ~found.found
                THEN /\ m_pc' = "KeyError"
                     /\ UNCHANGED <<result, m_i>>
                ELSE /\ result' = Append(result,
                            << IF img_number # 0
                               THEN ImgHtml(img_number, found.suffix) \o Escape(question)
                               ELSE question,
                               Escape(pop.popped) >> \o answers)
                     /\ m_i' = m_i + 1
                     /\ m_pc' = "loop"
    /\ UNCHANGED <<m_question_list, correct_answers, filetype_map, m_ret>>

\* line 218: return result
MatrixReturn ==
    /\ m_pc = "loop"
    /\ m_i = Len(m_question_list)
    /\ m_pc' = "returned"
    /\ m_ret' = [returned |-> TRUE, value |-> result]
    /\ UNCHANGED <<m_question_list, correct_answers, filetype_map, result, m_i>>

\* Records as parse_text_from_pdf builds them: text, image number (0 for
\* none), options A to D; with quotation marks and backslashes in the texts.
QuestionRecords ==
    { << <<"1", ".", "1", ".", " ", "x">>, 0, <<"a">>, <<"b">>, <<"c">>, <<"d">> >>,
      << <<"1", ".", "2", ".", " ", "s", "\"", "t">>, 3,
         <<"a", "\"">>, <<"b", "\\">>, <<"c">>, <<"d">> >>,
      << <<"2", ".", "1", ".", " ", "\"", "u", "\"">>, 0,
         <<"a">>, <<"b">>, <<"c">>, <<"d", "\"">> >>,
      << <<"2", ".", "2", ".", " ", "y">>, 12, <<"a">>, <<"a">>, <<"b">>, <<"b">> >> }

\* Catalogs as extract_images builds them, and the empty one of line 59
\* (no pictures are processed).
FiletypeMaps ==
    { [n \in {} |-> <<>>],
      (3 :> <<"p", "n", "g">>),
      (3 :> <<"p", "n", "g">>) @@ (12 :> <<"j", "p", "g">>) }

SeqsUpTo(S, n) == UNION {[1..k -> S] : k \in 0..n}

\* the call of line 60
MatrixStart ==
    /\ m_question_list \in SeqsUpTo(QuestionRecords, MaxRows)
    /\ correct_answers \in SeqsUpTo(0..3, MaxRows)
    /\ filetype_map \in FiletypeMaps
    /\ result = <<>>
    /\ m_i = 0
    /\ m_pc = "assert"
    /\ m_ret = NotReturned

MatrixIdle ==
    /\ m_question_list = <<>>
    /\ correct_answers = <<>>
    /\ filetype_map = [n \in {} |-> <<>>]
    /\ result = <<>>
    /\ m_i = 0
    /\ m_pc = "idle"
    /\ m_ret = NotReturned

\* the strings escape is called with: every string of up to MaxStr
\* characters over a letter, the quotation mark and the backslash, and
\* the string  He said "hi"\
EscapeInputs ==
    SeqsUpTo({"a", "\"", "\\"}, MaxStr)
    \cup { <<"H", "e", " ", "s", "a", "i", "d", " ", "\"", "h", "i", "\"", "\\">> }

EscapeStart ==
    /\ esc_in \in EscapeInputs
    /\ esc_out = <<>>

EscapeIdle ==
    /\ esc_in = <<>>
    /\ esc_out = <<>>

\* escape called on the string, then on its own result
EscapeCall ==
    /\ Len(esc_out) < 2
    /\ esc_out' = Append(esc_out,
                    Escape(IF esc_out = <<>> THEN esc_in ELSE esc_out[Len(esc_out)]))
    /\ esc_in' = esc_in

----------------------------------------------------------------------------
(* extract_images                                                          *)

\* line 251: filename in ["x-089.png", "x-105.png"]
ReservedNames ==
    { <<"x", "-", "0", "8", "9", ".", "p", "n", "g">>,
      <<"x", "-", "1", "0", "5", ".", "p", "n", "g">> }

\* lines 251-254: stat.st_size in [78247, 25220]
ReservedSizes == {78247, 25220}

\* the name-only filter: the sizes are not looked at
DiscardedByName(f) == f.name \in ReservedNames

\* lines 251-254: the file is one of the unwanted images
Discarded(f) == f.name \in ReservedNames \/ f.size \in ReservedSizes

\* line 260: re.search(r"\.(...)$", filename)
MatchSuffix(filename) ==
    LET n == Len(filename)
    IN  IF n >= 4 /\ filename[n - 3] = "."
        THEN [ok |-> TRUE, g1 |-> SubSeq(filename, n - 2, n), g2 |-> <<>>]
        ELSE NoMatch

\* the suffix recorded as it is, also for a converted TIFF
ResultSuffixKeepTif(suffix) == suffix

\* lines 267-279: the suffix of the file written and recorded in the catalog
ResultSuffix(suffix) ==
    IF suffix = <<"t", "i", "f">> THEN <<"j", "p", "g">> ELSE suffix

\* os.rename(path, new), and gm convert followed by os.unlink(path): the
\* file named new now holds what came from path; a file of that name is replaced
MoveFile(dir, path, new) ==
    [n \in (DOMAIN dir \ {path}) \cup {new} |-> IF n = new THEN dir[path] ELSE dir[n]]

\* os.unlink(path)
Unlink(dir, path) == [n \in DOMAIN dir \ {path} |-> dir[n]]

\* dict with filetype_map[key] = value done
SetItem(map, key, value) ==
    [n \in DOMAIN map \cup {key} |-> IF n = key THEN value ELSE map[n]]

\* the loop with no IndexError: a file for which no identifier is left is
\* given the identifier 0
ExtractFileUnchecked ==
    /\ x_pc = "loop"
    /\ x_i < Len(staged)
    /\ LET f == staged[x_i + 1]
       IN  IF Discarded(f)
           THEN /\ images_dir' = Unlink(images_dir, f.name)
                /\ x_i' = x_i + 1
                /\ UNCHANGED <<image_index, x_filetype_map, renamed, x_pc>>
           ELSE LET image_number == IF image_index < Len(image_numbers)
                                    THEN image_numbers[image_index + 1]
                                    ELSE 0
                    suffix       == MatchSuffix(f.name).g1
                    new          == make_image_name(image_number) \o <<".">>
                                       \o ResultSuffix(suffix)
                IN  /\ images_dir' = MoveFile(images_dir, f.name, new)
                    /\ renamed' = Append(renamed, [src |-> f.name, dst |-> new])
                    /\ x_filetype_map' =
                          SetItem(x_filetype_map, image_number, ResultSuffix(suffix))
                    /\ image_index' = image_index + 1
                    /\ x_i' = x_i + 1
                    /\ x_pc' = "loop"
    /\ UNCHANGED <<staged, image_numbers, x_ret>>

\* lines 248-280: one iteration of the loop over the sorted file names
ExtractFile ==
    /\ x_pc = "loop"
    /\ x_i < Len(staged)
    /\ LET f == staged[x_i + 1]
       IN  IF Discarded(f)
           THEN /\ images_dir' = Unlink(images_dir, f.name)
                /\ x_i' = x_i + 1
                /\ UNCHANGED <<image_index, x_filetype_map, renamed, x_pc>>
           ELSE IF image_index >= Len(image_numbers)
           THEN \* image_numbers[image_index] raises IndexError
                /\ x_pc' = "IndexError"
                /\ UNCHANGED <<image_index, x_filetype_map, renamed, x_i, images_dir>>
           ELSE IF ~MatchSuffix(f.name).ok
           THEN \* match is None: match.group(1) raises AttributeError
                /\ x_pc' = "AttributeError"
                /\ UNCHANGED <<image_index, x_filetype_map, renamed, x_i, images_dir>>
           ELSE LET image_number == image_numbers[image_index + 1]
                    suffix       == MatchSuffix(f.name).g1
                    dest         == make_image_name(image_number)
                    new          == dest \o <<".">> \o ResultSuffix(suffix)
                IN  \E gm_ok \in (IF suffix = <<"t", "i", "f">> THEN BOOLEAN ELSE {TRUE}) :
                       IF gm_ok
                       THEN /\ images_dir' = MoveFile(images_dir, f.name, new)
                            /\ renamed' = Append(renamed, [src |-> f.name, dst |-> new])
                            /\ x_filetype_map' =
                                  SetItem(x_filetype_map, image_number, ResultSuffix(suffix))
                            /\ image_index' = image_index + 1
                            /\ x_i' = x_i + 1
                            /\ x_pc' = "loop"
                       ELSE \* gm convert exits non-zero under check=True
                            /\ x_pc' = "CalledProcessError"
                            /\ UNCHANGED <<image_index, x_filetype_map, renamed,
                                           x_i, images_dir>>
    /\ UNCHANGED <<staged, image_numbers, x_ret>>

\* line 282: return filetype_map
ExtractReturn ==
    /\ x_pc = "loop"
    /\ x_i = Len(staged)
    /\ x_pc' = "returned"
    /\ x_ret' = [returned |-> TRUE, value |-> x_filetype_map]
    /\ UNCHANGED <<staged, image_numbers, image_index, x_filetype_map, x_i,
                   images_dir, renamed>>

\* The numbers pdfimages gives the files it writes (x-NNN.<suffix>), in
\* increasing order, which is the order of the sorted names.
StagedNumbers == <<0, 89, 105>>

\* the suffix and the size of a staged file
StagedKinds ==
    << [suffix |-> <<"p", "n", "g">>, size |-> 1000],
       [suffix |-> <<"j", "p", "g">>, size |-> 1000],
       [suffix |-> <<"t", "i", "f">>, size |-> 4000],
       [suffix |-> <<"p", "n", "g">>, size |-> 78247],
       [suffix |-> <<"j", "p", "g">>, size |-> 25220] >>

StagedFile(number, kind) ==
    [name |-> <<"x", "-">> \o FmtInt03(number) \o <<".">> \o kind.suffix,
     size |-> kind.size]

\* the sorted listing in which the k-th number is absent (pick[k] = 0) or
\* present with the kind pick[k]
RECURSIVE Listing(_, _)
Listing(pick, k) ==
    IF k > Len(StagedNumbers) THEN <<>>
    ELSE (IF pick[k] = 0 THEN <<>>
          ELSE <<StagedFile(StagedNumbers[k], StagedKinds[pick[k]])>>)
         \o Listing(pick, k + 1)

StagedLists ==
    { Listing(pick, 1) : pick \in [1..Len(StagedNumbers) -> 0..Len(StagedKinds)] }

\* lines 246-248: the state before the first file is handled
ImagesStart ==
    /\ staged \in StagedLists
    /\ image_numbers \in SeqsUpTo({3, 12}, MaxIds)
    /\ image_index = 0
    /\ x_filetype_map = [n \in {} |-> <<>>]
    /\ x_i = 0
    /\ images_dir = [n \in {staged[k].name : k \in 1..Len(staged)} |-> n]
    /\ renamed = <<>>
    /\ x_pc = "loop"
    /\ x_ret = NotReturned

ImagesIdle ==
    /\ staged = <<>>
    /\ image_numbers = <<>>
    /\ image_index = 0
    /\ x_filetype_map = [n \in {} |-> <<>>]
    /\ x_i = 0
    /\ images_dir = [n \in {} |-> <<>>]
    /\ renamed = <<>>
    /\ x_pc = "idle"
    /\ x_ret = NotReturned

----------------------------------------------------------------------------
(* main and process_files: the calls in their order.  What a stage returns  *)
(* or raises depends on the files it reads, so each outcome the stage has   *)
(* is a choice here; the stages themselves are modelled above.              *)

\* an exception leaves process_files and main: the run ends
Abort(what) ==
    /\ failures' = failures \cup {what}
    /\ main_pc' = "aborted"

\* qpdf with the exit code 0 alone taken as success
DecompressZeroOnly ==
    /\ main_pc = "decompress"
    /\ UNCHANGED notMainVars
    /\ stages' = Append(stages, "decompress_questions_pdf")
    /\ \E rc \in 0..3 :
          /\ qpdf_rc' = rc
          /\ IF rc # 0
             THEN Abort("qpdf")
             ELSE main_pc' = "answers" /\ failures' = failures
    /\ UNCHANGED <<pictures_pdf, n_answers, n_questions, needs_image,
                   catalog_has_image, matrix_rows, tsv_open, tsv_rows>>

\* lines 50, 63-73: qpdf is run; an exit code other than 0 and 3 raises
Decompress ==
    /\ main_pc = "decompress"
    /\ UNCHANGED notMainVars
    /\ stages' = Append(stages, "decompress_questions_pdf")
    /\ \E rc \in 0..3 :
          /\ qpdf_rc' = rc
          /\ IF rc \notin {0, 3}
             THEN Abort("qpdf")
             ELSE main_pc' = "answers" /\ failures' = failures
    /\ UNCHANGED <<pictures_pdf, n_answers, n_questions, needs_image,
                   catalog_has_image, matrix_rows, tsv_open, tsv_rows>>

\* lines 51, 76-95: the answer key is returned, or a quadruplet is not in
\* answer_map
AnswerKey ==
    /\ main_pc = "answers"
    /\ UNCHANGED notMainVars
    /\ stages' = Append(stages, "construct_correct_answer_list")
    /\ \/ /\ Abort("quadruplet")
          /\ n_answers' = n_answers
       \/ /\ n_answers' \in 0..MaxCount
          /\ main_pc' = "parse"
          /\ failures' = failures
    /\ UNCHANGED <<pictures_pdf, qpdf_rc, n_questions, needs_image,
                   catalog_has_image, matrix_rows, tsv_open, tsv_rows>>

\* lines 52, 98-187: pdftotext is run with check=True, then the text is
\* parsed; lines 53 and 59: without pictures the catalog is empty
ParseText ==
    /\ main_pc = "parse"
    /\ UNCHANGED notMainVars
    /\ stages' = Append(stages, "parse_text_from_pdf")
    /\ \/ /\ Abort("pdftotext")
          /\ UNCHANGED <<n_questions, needs_image>>
       \/ /\ n_questions' \in 0..MaxCount
          /\ needs_image' \in (IF n_questions' = 0 THEN {FALSE} ELSE BOOLEAN)
          /\ main_pc' = IF pictures_pdf # "-" THEN "image_numbers" ELSE "assemble"
          /\ failures' = failures
    /\ UNCHANGED <<pictures_pdf, qpdf_rc, n_answers, catalog_has_image,
                   matrix_rows, tsv_open, tsv_rows>>

\* lines 54, 221-231: pdftotext is run on the pictures with check=True
ImageNumbers ==
    /\ main_pc = "image_numbers"
    /\ UNCHANGED notMainVars
    /\ stages' = Append(stages, "extract_image_numbers")
    /\ \/ Abort("pdftotext")
       \/ main_pc' = "images" /\ failures' = failures
    /\ UNCHANGED <<pictures_pdf, qpdf_rc, n_answers, n_questions, needs_image,
                   catalog_has_image, matrix_rows, tsv_open, tsv_rows>>

\* lines 55-57, 234-282: pdfimages is run and its exit code is not looked at
\* (lines 242-244: no check=True, the result is dropped); the loop then
\* returns a catalog, or raises (IndexError, or gm convert under check=True)
ExtractImages ==
    /\ main_pc = "images"
    /\ UNCHANGED notMainVars
    /\ stages' = Append(stages, "extract_images")
    /\ \E pdfimages_rc \in 0..1, raised \in {"", "IndexError", "gm convert"} :
          LET after == IF pdfimages_rc # 0 THEN failures \cup {"pdfimages"} ELSE failures
          IN  IF raised # ""
              THEN /\ failures' = after \cup {raised}
                   /\ main_pc' = "aborted"
                   /\ catalog_has_image' = catalog_has_image
              ELSE /\ failures' = after
                   /\ main_pc' = "assemble"
                   /\ catalog_has_image' \in (IF needs_image THEN BOOLEAN ELSE {FALSE})
    /\ UNCHANGED <<pictures_pdf, qpdf_rc, n_answers, n_questions, needs_image,
                   matrix_rows, tsv_open, tsv_rows>>

\* lines 60, 190-218: the assert on the lengths, the catalog lookups, the rows
Assemble ==
    /\ main_pc = "assemble"
    /\ UNCHANGED notMainVars
    /\ stages' = Append(stages, "create_output_matrix")
    /\ IF n_questions # n_answers
       THEN Abort("count mismatch") /\ matrix_rows' = matrix_rows
       ELSE IF needs_image /\ ~catalog_has_image
       THEN Abort("missing image") /\ matrix_rows' = matrix_rows
       ELSE /\ matrix_rows' = n_questions
            /\ main_pc' = "open"
            /\ failures' = failures
    /\ UNCHANGED <<pictures_pdf, qpdf_rc, n_answers, n_questions, needs_image,
                   catalog_has_image, tsv_open, tsv_rows>>

\* line 42: open(args.output_tsv, "w")
OpenTsv ==
    /\ main_pc = "open"
    /\ UNCHANGED notMainVars
    /\ tsv_open' = TRUE
    /\ main_pc' = "write"
    /\ UNCHANGED <<pictures_pdf, stages, failures, qpdf_rc, n_answers, n_questions,
                   needs_image, catalog_has_image, matrix_rows, tsv_rows>>

\* lines 44-45: writer.writerow(row)
WriteRow ==
    /\ main_pc = "write"
    /\ UNCHANGED notMainVars
    /\ tsv_rows < matrix_rows
    /\ tsv_rows' = tsv_rows + 1
    /\ UNCHANGED <<pictures_pdf, main_pc, stages, failures, qpdf_rc, n_answers,
                   n_questions, needs_image, catalog_has_image, matrix_rows, tsv_open>>

\* the end of main
Finish ==
    /\ main_pc = "write"
    /\ UNCHANGED notMainVars
    /\ tsv_rows = matrix_rows
    /\ main_pc' = "done"
    /\ UNCHANGED <<pictures_pdf, stages, failures, qpdf_rc, n_answers, n_questions,
                   needs_image, catalog_has_image, matrix_rows, tsv_open, tsv_rows>>

\* lines 24-36: the arguments are parsed and process_files is called
MainStart ==
    /\ pictures_pdf \in {"-", "pictures.pdf"}
    /\ main_pc = "decompress"
    /\ stages = <<>>
    /\ failures = {}
    /\ qpdf_rc = -1
    /\ n_answers = 0
    /\ n_questions = 0
    /\ needs_image = FALSE
    /\ catalog_has_image = FALSE
    /\ matrix_rows = 0
    /\ tsv_open = FALSE
    /\ tsv_rows = 0

MainIdle ==
    /\ pictures_pdf = "-"
    /\ main_pc = "idle"
    /\ stages = <<>>
    /\ failures = {}
    /\ qpdf_rc = -1
    /\ n_answers = 0
    /\ n_questions = 0
    /\ needs_image = FALSE
    /\ catalog_has_image = FALSE
    /\ matrix_rows = 0
    /\ tsv_open = FALSE
    /\ tsv_rows = 0

----------------------------------------------------------------------------
(* The specifications.                                                     *)

\* construct_correct_answer_list over any sequence of lines
ScanLine ==
    /\ \E line \in BoxLines : AnswerLine(line)
    /\ UNCHANGED <<parseVars, matrixVars, escapeVars, imageVars, mainVars>>

ScanEnd ==
    /\ AnswersReturn
    /\ UNCHANGED <<parseVars, matrixVars, escapeVars, imageVars, mainVars>>

AnswersNext ==
    \/ ScanLine
    \/ ScanEnd

InitAnswers == AnswersInit /\ ParserIdle /\ MatrixIdle /\ EscapeIdle /\ ImagesIdle /\ MainIdle

SpecAnswers == InitAnswers /\ [][AnswersNext]_vars

\* construct_correct_answer_list over any sequence of lines, with the line
\* the loop variable holds kept in lines
ReadLine ==
    /\ \E line \in BoxLines :
          /\ AnswerLine(line)
          /\ lines' = <<line>>
    /\ UNCHANGED <<blocks, line_no, current_section, last_question_number, state,
                   current_q, question_list, parse_pc, parse_ret, n_cont>>
    /\ UNCHANGED <<matrixVars, escapeVars, imageVars, mainVars>>

ReadEnd ==
    /\ AnswersReturn
    /\ UNCHANGED <<parseVars, matrixVars, escapeVars, imageVars, mainVars>>

ReadNext ==
    \/ ReadLine
    \/ ReadEnd

InitRead == AnswersInit /\ ParserIdle /\ MatrixIdle /\ EscapeIdle /\ ImagesIdle /\ MainIdle

SpecRead == InitRead /\ [][ReadNext]_vars

\* parse_text_from_pdf over any sequence of lines
FreeLine ==
    /\ \E line_raw \in RawLines : ParseLine(line_raw)
    /\ n_cont' <= MaxCont
    /\ Started' <= MaxQ
    /\ UNCHANGED <<blocks, lines, line_no>>
    /\ UNCHANGED <<answerVars, matrixVars, escapeVars, imageVars, mainVars>>

FreeEnd ==
    /\ ParseReturn
    /\ UNCHANGED <<blocks, lines, line_no>>
    /\ UNCHANGED <<answerVars, matrixVars, escapeVars, imageVars, mainVars>>

ParseNext ==
    \/ FreeLine
    \/ FreeEnd

InitParse ==
    /\ blocks = <<>>
    /\ lines = <<>>
    /\ line_no = 0
    /\ ParserStart
    /\ AnswersIdle /\ MatrixIdle /\ EscapeIdle /\ ImagesIdle /\ MainIdle

SpecParse == InitParse /\ [][ParseNext]_vars

\* parse_text_from_pdf over any sequence of lines, with the line the loop
\* variable line_raw holds kept in lines
FeedLine ==
    /\ \E line_raw \in RawLines :
          /\ ParseLine(line_raw)
          /\ lines' = <<line_raw>>
    /\ n_cont' <= MaxCont
    /\ Started' <= MaxQ
    /\ UNCHANGED <<blocks, line_no>>
    /\ UNCHANGED <<answerVars, matrixVars, escapeVars, imageVars, mainVars>>

FeedEnd ==
    /\ ParseReturn
    /\ UNCHANGED <<blocks, lines, line_no>>
    /\ UNCHANGED <<answerVars, matrixVars, escapeVars, imageVars, mainVars>>

FeedNext ==
    \/ FeedLine
    \/ FeedEnd

InitFeed ==
    /\ blocks = <<>>
    /\ lines = <<>>
    /\ line_no = 0
    /\ ParserStart
    /\ AnswersIdle /\ MatrixIdle /\ EscapeIdle /\ ImagesIdle /\ MainIdle

SpecFeed == InitFeed /\ [][FeedNext]_vars

\* parse_text_from_pdf over the text of a well-formed document
DocLine ==
    /\ line_no < Len(lines)
    /\ ParseLine(lines[line_no + 1])
    /\ line_no' = line_no + 1
    /\ UNCHANGED <<blocks, lines>>
    /\ UNCHANGED <<answerVars, matrixVars, escapeVars, imageVars, mainVars>>

DocEnd ==
    /\ line_no = Len(lines)
    /\ ParseReturn
    /\ UNCHANGED <<blocks, lines, line_no>>
    /\ UNCHANGED <<answerVars, matrixVars, escapeVars, imageVars, mainVars>>

DocNext ==
    \/ DocLine
    \/ DocEnd

InitDoc ==
    /\ blocks \in UNION {[1..k -> BlockFields] : k \in 0..MaxBlocks}
    /\ lines = Render(blocks)
    /\ line_no = 0
    /\ ParserStart
    /\ AnswersIdle /\ MatrixIdle /\ EscapeIdle /\ ImagesIdle /\ MainIdle

SpecDoc == InitDoc /\ [][DocNext]_vars


\* create_output_matrix over every question list, answer key and catalog
AssertLengths ==
    /\ MatrixAssert
    /\ UNCHANGED <<answerVars, parseVars, escapeVars, imageVars, mainVars>>

BuildRow ==
    /\ MatrixRow
    /\ UNCHANGED <<answerVars, parseVars, escapeVars, imageVars, mainVars>>

ReturnMatrix ==
    /\ MatrixReturn
    /\ UNCHANGED <<answerVars, parseVars, escapeVars, imageVars, mainVars>>

MatrixNext ==
    \/ AssertLengths
    \/ BuildRow
    \/ ReturnMatrix

InitMatrix == MatrixStart /\ AnswersIdle /\ ParserIdle /\ EscapeIdle /\ ImagesIdle /\ MainIdle

SpecMatrix == InitMatrix /\ [][MatrixNext]_vars

\* escape applied to a string and to its own result
EscapeNext ==
    /\ EscapeCall
    /\ UNCHANGED <<answerVars, parseVars, matrixVars, imageVars, mainVars>>

InitEscape == EscapeStart /\ AnswersIdle /\ ParserIdle /\ MatrixIdle /\ ImagesIdle /\ MainIdle

SpecEscape == InitEscape /\ [][EscapeNext]_vars


\* process_files, lines 51-60: the answer key is there, the text of a
\* document is parsed, and the records returned are assembled with a catalog
Handover ==
    /\ parse_pc = "returned"
    /\ m_pc = "idle"
    /\ m_question_list' = parse_ret.value
    /\ filetype_map' \in RefCatalogs
    /\ m_pc' = "assert"
    /\ UNCHANGED <<correct_answers, result, m_i, m_ret>>
    /\ UNCHANGED <<answerVars, parseVars, escapeVars, imageVars, mainVars>>

PipeRead ==
    /\ line_no < Len(lines)
    /\ ParseLine(lines[line_no + 1])
    /\ line_no' = line_no + 1
    /\ UNCHANGED <<blocks, lines>>
    /\ UNCHANGED <<answerVars, matrixVars, escapeVars, imageVars, mainVars>>

PipeParsed ==
    /\ line_no = Len(lines)
    /\ ParseReturn
    /\ UNCHANGED <<blocks, lines, line_no>>
    /\ UNCHANGED <<answerVars, matrixVars, escapeVars, imageVars, mainVars>>

PipeAssert ==
    /\ MatrixAssert
    /\ UNCHANGED <<answerVars, parseVars, escapeVars, imageVars, mainVars>>

PipeRow ==
    /\ MatrixRow
    /\ UNCHANGED <<answerVars, parseVars, escapeVars, imageVars, mainVars>>

PipeReturn ==
    /\ MatrixReturn
    /\ UNCHANGED <<answerVars, parseVars, escapeVars, imageVars, mainVars>>

PipeNext ==
    \/ PipeRead
    \/ PipeParsed
    \/ Handover
    \/ PipeAssert
    \/ PipeRow
    \/ PipeReturn

InitPipe ==
    /\ blocks \in SeqsUpTo(RefBlocks, MaxRows)
    /\ lines = Render(blocks)
    /\ line_no = 0
    /\ ParserStart
    /\ m_question_list = <<>>
    /\ correct_answers \in [1..Len(blocks) -> 0..3]
    /\ filetype_map = [n \in {} |-> <<>>]
    /\ result = <<>>
    /\ m_i = 0
    /\ m_pc = "idle"
    /\ m_ret = NotReturned
    /\ AnswersIdle /\ EscapeIdle /\ ImagesIdle /\ MainIdle

SpecPipe == InitPipe /\ [][PipeNext]_vars


\* extract_images over every sorted listing and identifier list
HandleFile ==
    /\ ExtractFile
    /\ UNCHANGED <<answerVars, parseVars, matrixVars, escapeVars, mainVars>>

ReturnCatalog ==
    /\ ExtractReturn
    /\ UNCHANGED <<answerVars, parseVars, matrixVars, escapeVars, mainVars>>

ImagesNext ==
    \/ HandleFile
    \/ ReturnCatalog

InitImages == ImagesStart /\ AnswersIdle /\ ParserIdle /\ MatrixIdle /\ EscapeIdle /\ MainIdle

SpecImages == InitImages /\ [][ImagesNext]_vars


\* a whole run of main
MainNext ==
    \/ Decompress
    \/ AnswerKey
    \/ ParseText
    \/ ImageNumbers
    \/ ExtractImages
    \/ Assemble
    \/ OpenTsv
    \/ WriteRow
    \/ Finish

InitMain ==
    MainStart /\ AnswersIdle /\ ParserIdle /\ MatrixIdle /\ EscapeIdle /\ ImagesIdle

SpecMain == InitMain /\ [][MainNext]_vars

----------------------------------------------------------------------------
(* construct_correct_answer_list: the claims.                              *)

\* the k-th group of four matched letters
GroupAt(k) == SubSeq(matched, 4 * (k - 1) + 1, 4 * k)

CountB(g) == Cardinality({i \in 1..Len(g) : g[i] = "B"})

PositionOfB(g) == (CHOOSE i \in 1..Len(g) : g[i] = "B") - 1

\* C1: every complete group of four matched letters holds exactly one B and
\* contributes the 0-based position of that B to the answer list, in order;
\* the scan ends in an error, and returns nothing, exactly when the group just
\* completed holds no B or more than one; and the accumulator holds the
\* letters matched since the last accepted group (none right after one).
C1_OneFilledBoxPerGroup ==
    LET n        == Len(matched) \div 4
        accepted == IF ans_pc = "KeyError" THEN n - 1 ELSE n
    IN  /\ \A k \in 1..accepted : CountB(GroupAt(k)) = 1
        /\ Len(answer_list) = accepted
        /\ \A k \in 1..accepted : answer_list[k] = PositionOfB(GroupAt(k))
        /\ ans_pc = "KeyError" <=>
              (n >= 1 /\ Len(matched) % 4 = 0 /\ CountB(GroupAt(n)) # 1)
        /\ ans_pc = "KeyError" => ~ans_ret.returned
        /\ ans_pc # "KeyError" =>
              answer_group = SubSeq(matched, 4 * n + 1, Len(matched))
        /\ ans_ret.returned => ans_ret.value = answer_list

\* one group was accepted with the B in third place, the accumulator was
\* emptied, and the next group (two B) ended the scan with an error
C1_Witness ==
    /\ ans_pc = "KeyError"
    /\ answer_list = <<2>>
    /\ Len(matched) = 8
    /\ CountB(GroupAt(2)) = 2

----------------------------------------------------------------------------
(* parse_text_from_pdf: the claims.                                        *)

ExpectedFields ==
    [s \in {"ignore", "question", "answer_a", "answer_b", "answer_c", "answer_d"} |->
        CASE s = "ignore"   -> 0
          [] s = "question" -> 2
          [] s = "answer_a" -> 3
          [] s = "answer_b" -> 4
          [] s = "answer_c" -> 5
          [] s = "answer_d" -> 6]

\* C2: whatever lines are read, no assert of the state machine fails, and the
\* accumulator holds 0 fields between questions, 2 in the question text and
\* 3, 4, 5, 6 in the options A, B, C, D.
C2_AccumulatorSize ==
    /\ parse_pc # "AssertionError"
    /\ Len(current_q) = ExpectedFields[state]

\* a second question has reached option D after a first one was closed and a
\* line was appended to a field
C2_Witness ==
    /\ state = "answer_d"
    /\ Len(current_q) = 6
    /\ Len(question_list) = 1
    /\ n_cont = 1

\* the local number of the i-th block of the document
NumberOf(i) == ParseInt(blocks[i].num)

\* 1 plus the number of headers among the first i whose local number is
\* smaller than the one before
SectionOf(i) == 1 + Cardinality({j \in 2..i : NumberOf(j) < NumberOf(j - 1)})

SectionPrefix(i) ==
    FmtInt(SectionOf(i)) \o <<".">> \o FmtInt(NumberOf(i)) \o <<".", " ">>

\* C3: the section counter is 1 plus the number of recognised headers whose
\* local number is strictly smaller than that of the header before (so 1
\* before any header), and the text of every record starts with the counter's
\* value after its own header, then the local number.
C3_SectionCounter ==
    /\ parse_pc # "AssertionError"
    /\ current_section = SectionOf(Started)
    /\ last_question_number = (IF Started = 0 THEN 0 ELSE NumberOf(Started))
    /\ \A i \in 1..Len(question_list) :
          StartsWith(question_list[i][1], SectionPrefix(i))
    /\ state # "ignore" => StartsWith(current_q[1], SectionPrefix(Started))

\* the local numbers 1, 2, 3, 1, 2 were read and gave the sections 1, 1, 1, 2, 2
C3_Witness ==
    /\ parse_ret.returned
    /\ Len(blocks) = 5
    /\ <<NumberOf(1), NumberOf(2), NumberOf(3), NumberOf(4), NumberOf(5)>>
          = <<1, 2, 3, 1, 2>>
    /\ Len(parse_ret.value) = 5
    /\ StartsWith(parse_ret.value[3][1], <<"1", ".", "3", ".", " ">>)
    /\ StartsWith(parse_ret.value[4][1], <<"2", ".", "1", ".", " ">>)
    /\ StartsWith(parse_ret.value[5][1], <<"2", ".", "2", ".", " ">>)
    /\ current_section = 2

\* a field after whitespace collapsing
NormField(f) == CollapseSpaces(Strip(f))

OptionsVerbatim(rec, f) ==
    /\ rec[3] = NormField(f.a)
    /\ rec[4] = NormField(f.b)
    /\ rec[5] = NormField(f.c)
    /\ rec[6] = NormField(f.d)

\* C4 as stated: a document of k well-formed blocks yields k records, in
\* order, whose question text and option texts are the input fields after
\* whitespace collapsing.
C4_FieldsVerbatim ==
    parse_ret.returned =>
        /\ Len(parse_ret.value) = Len(blocks)
        /\ \A i \in 1..Len(blocks) :
              /\ parse_ret.value[i][1] = NormField(blocks[i].text)
              /\ OptionsVerbatim(parse_ret.value[i], blocks[i])

\* C4, amended: a document of k well-formed blocks yields k records, in
\* order; the option texts are the input fields after whitespace collapsing,
\* and the question text is "<section>.<n>. " followed by the input text
\* after whitespace collapsing, less a leading "Abbildung <m>:" marker, whose
\* number is the record's image number (0 without a marker).
C4_FieldsNumbered ==
    parse_ret.returned =>
        /\ Len(parse_ret.value) = Len(blocks)
        /\ \A i \in 1..Len(blocks) :
              LET text == NormField(blocks[i].text)
                  mark == MatchAbbildung(text)
                  body == IF mark.ok THEN mark.g2 ELSE text
              IN  /\ Len(parse_ret.value[i]) = 6
                  /\ parse_ret.value[i][1] = SectionPrefix(i) \o body
                  /\ parse_ret.value[i][2] = (IF mark.ok THEN ParseInt(mark.g1) ELSE 0)
                  /\ OptionsVerbatim(parse_ret.value[i], blocks[i])

\* a document of two blocks was parsed: one with runs of spaces and an empty
\* option, one with an image marker
C4_Witness ==
    /\ parse_ret.returned
    /\ Len(blocks) = 2
    /\ Len(parse_ret.value) = 2
    /\ blocks[1].c = <<>>
    /\ parse_ret.value[1][4] = <<"b", " ", "b">>
    /\ parse_ret.value[2][2] = 3

----------------------------------------------------------------------------
(* create_output_matrix: the claims.                                       *)

\* C5: with a question list and an answer key of different lengths the
\* function ends in the AssertionError of its first statement: no row is ever
\* built and nothing is returned; the loop runs only with equal lengths.
C5_LengthsCheckedFirst ==
    /\ Len(m_question_list) # Len(correct_answers) =>
          /\ m_pc \in {"assert", "AssertionError"}
          /\ result = <<>>
          /\ ~m_ret.returned
    /\ m_pc = "AssertionError" => Len(m_question_list) # Len(correct_answers)
    /\ m_pc # "IndexError"

\* two questions and one answer-key entry: the assert failed with no row built
C5_Witness ==
    /\ m_pc = "AssertionError"
    /\ Len(m_question_list) = 2
    /\ Len(correct_answers) = 1
    /\ result = <<>>

OptionsOf(i) ==
    <<m_question_list[i][3], m_question_list[i][4],
      m_question_list[i][5], m_question_list[i][6]>>

\* the j-th of the three options that are not option k (k counted from 0)
OtherOption(i, k, j) == OptionsOf(i)[IF j <= k THEN j ELSE j + 1]

\* C6 as stated: row i is the question text, option k, then the three other
\* options in their A/B/C/D order; one row per question, in order.
C6_RowsVerbatim ==
    /\ Len(result) = m_i
    /\ m_ret.returned => Len(m_ret.value) = Len(m_question_list)
    /\ \A i \in 1..Len(result) :
          LET k == correct_answers[i]
          IN  result[i] = << m_question_list[i][1], OptionsOf(i)[k + 1],
                             OtherOption(i, k, 1), OtherOption(i, k, 2),
                             OtherOption(i, k, 3) >>

\* the first field of row i
QuestionField(i) ==
    LET question   == m_question_list[i][1]
        img_number == m_question_list[i][2]
    IN  IF img_number # 0
        THEN ImgHtml(img_number, filetype_map[img_number]) \o Escape(question)
        ELSE question

\* C6, amended: row i has five fields: the question text (with an image
\* reference: the image tag, then the escaped text), then escape of option k,
\* then escape of each of the three other options in their A/B/C/D order; one
\* row per question, in order.
C6_RowsEscaped ==
    /\ Len(result) = m_i
    /\ m_ret.returned =>
          /\ m_ret.value = result
          /\ Len(m_ret.value) = Len(m_question_list)
    /\ \A i \in 1..Len(result) :
          LET k == correct_answers[i]
          IN  result[i] = << QuestionField(i), Escape(OptionsOf(i)[k + 1]),
                             Escape(OtherOption(i, k, 1)),
                             Escape(OtherOption(i, k, 2)),
                             Escape(OtherOption(i, k, 3)) >>

\* two rows were returned, for the answers B and D: the first has option B
\* (its backslash removed) before the options A (its quotation mark
\* escaped), C and D, the second has option D before A, B and C
C6_Witness ==
    /\ m_ret.returned
    /\ Len(m_ret.value) = 2
    /\ correct_answers = <<1, 3>>
    /\ OptionsOf(1) = << <<"a", "\"">>, <<"b", "\\">>, <<"c">>, <<"d">> >>
    /\ SubSeq(m_ret.value[1], 2, 5)
          = << <<"b">>, <<"a", "\\", "\"">>, <<"c">>, <<"d">> >>
    /\ OptionsOf(2) = << <<"a">>, <<"b">>, <<"c">>, <<"d", "\"">> >>
    /\ SubSeq(m_ret.value[2], 2, 5)
          = << <<"d", "\\", "\"">>, <<"a">>, <<"b">>, <<"c">> >>

\* C7: a question whose image number is set and absent from the catalog ends
\* the assembly in a KeyError, with no row built for it and nothing returned;
\* the row of a question whose image number is in the catalog starts with the
\* image tag made of the fixed name, the suffix looked up and the number,
\* followed by the escaped question text.
C7_MissingImageIsFatal ==
    /\ m_pc = "KeyError" =>
          /\ m_question_list[m_i + 1][2] # 0
          /\ m_question_list[m_i + 1][2] \notin DOMAIN filetype_map
          /\ Len(result) = m_i
          /\ ~m_ret.returned
    /\ \A i \in 1..Len(result) :
          LET img_number == m_question_list[i][2]
          IN  img_number # 0 =>
                /\ img_number \in DOMAIN filetype_map
                /\ result[i][1] = ImgHtml(img_number, filetype_map[img_number])
                                    \o Escape(m_question_list[i][1])
    /\ m_ret.returned =>
          \A i \in 1..Len(m_question_list) :
             \/ m_question_list[i][2] = 0
             \/ m_question_list[i][2] \in DOMAIN filetype_map

\* image 3 is in the catalog and its tag was prepended to the first question;
\* image 12 of the second question is not, and the assembly ended in KeyError
C7_Witness ==
    /\ m_pc = "KeyError"
    /\ m_i = 1
    /\ m_question_list[2][2] = 12
    /\ 12 \notin DOMAIN filetype_map
    /\ result[1][1] =
          <<"<", "i", "m", "g", " ", "s", "r", "c", "=", "\"", "D", "H", "V", "-",
            "F", "r", "a", "g", "e", "n", "-", "A", "b", "b", "i", "l", "d", "u",
            "n", "g", "-", "0", "0", "3", ".", "p", "n", "g", "\"", " ", "a", "l",
            "t", "=", "\"", "A", "b", "b", "i", "l", "d", "u", "n", "g", " ", "3",
            "\"", ">", "<", "b", "r", ">", "1", ".", "2", ".", " ", "s", "\\", "\"", "t">>

\* C8: escape applied to its own result changes nothing, and in a result of
\* escape every backslash stands immediately before a quotation mark and
\* every quotation mark immediately after a backslash.
C8_EscapeIdempotent ==
    /\ Len(esc_out) = 2 => esc_out[2] = esc_out[1]
    /\ \A k \in 1..Len(esc_out) :
          LET o == esc_out[k]
          IN  \A i \in 1..Len(o) :
                 /\ o[i] = "\\" => (i < Len(o) /\ o[i + 1] = "\"")
                 /\ o[i] = "\"" => (i > 1 /\ o[i - 1] = "\\")

\* He said "hi"\  was escaped twice, both times to  He said \"hi\"
C8_Witness ==
    /\ esc_in = <<"H", "e", " ", "s", "a", "i", "d", " ", "\"", "h", "i", "\"", "\\">>
    /\ esc_out = << <<"H", "e", " ", "s", "a", "i", "d", " ", "\\", "\"", "h", "i", "\\", "\"">>,
                    <<"H", "e", " ", "s", "a", "i", "d", " ", "\\", "\"", "h", "i", "\\", "\"">> >>

----------------------------------------------------------------------------
(* extract_images: the claims.                                             *)

\* the staged files among the first k that are not discarded, in order
Survivors(k) == SelectSeq(SubSeq(staged, 1, k), LAMBDA f : ~Discarded(f))

\* the last three characters of the name, "jpg" for "tif"
ExpectedSuffix(f) ==
    LET suffix == SubSeq(f.name, Len(f.name) - 2, Len(f.name))
    IN  IF suffix = <<"t", "i", "f">> THEN <<"j", "p", "g">> ELSE suffix

\* the j-th surviving file got the j-th identifier and was renamed (or
\* converted) to DHV-Fragen-Abbildung-<identifier, 3 digits>.<suffix>
AssignedInOrder ==
    LET sv == Survivors(x_i)
    IN  /\ image_index = Len(sv)
        /\ image_index <= Len(image_numbers)
        /\ Len(renamed) = image_index
        /\ \A j \in 1..image_index :
              renamed[j] =
                 [src |-> sv[j].name,
                  dst |-> make_image_name(image_numbers[j]) \o <<".">>
                             \o ExpectedSuffix(sv[j])]
        /\ DOMAIN x_filetype_map = {image_numbers[j] : j \in 1..image_index}
        /\ x_ret.returned => (x_ret.value = x_filetype_map /\ x_i = Len(staged))

\* C10 as stated: the j-th surviving file is given the j-th identifier and
\* renamed after it, and the catalog maps that identifier to the suffix of
\* the file it became.
C10_CatalogHasEachSuffix ==
    /\ AssignedInOrder
    /\ \A j \in 1..image_index :
          x_filetype_map[image_numbers[j]] = ExpectedSuffix(Survivors(x_i)[j])

\* C10, amended: the j-th surviving file is given the j-th identifier and
\* renamed after it, and the catalog maps every identifier given out to the
\* suffix of the last file that was given it: the j-th file's own suffix
\* unless its identifier occurs again among those given to later files.
C10_CatalogHasLastSuffix ==
    /\ AssignedInOrder
    /\ \A j \in 1..image_index :
          (\A k \in (j + 1)..image_index : image_numbers[k] # image_numbers[j])
             => x_filetype_map[image_numbers[j]] = ExpectedSuffix(Survivors(x_i)[j])

\* x-000.png, x-089.png and x-105.tif were staged with the identifiers 3 and
\* 12: the second file was discarded, the first became ...-003.png and the
\* third ...-012.jpg
C10_Witness ==
    /\ x_ret.returned
    /\ Len(staged) = 3
    /\ image_numbers = <<3, 12>>
    /\ renamed =
          << [src |-> <<"x", "-", "0", "0", "0", ".", "p", "n", "g">>,
              dst |-> <<"D", "H", "V", "-", "F", "r", "a", "g", "e", "n", "-", "A", "b",
                        "b", "i", "l", "d", "u", "n", "g", "-", "0", "0", "3", ".", "p",
                        "n", "g">>],
             [src |-> <<"x", "-", "1", "0", "5", ".", "t", "i", "f">>,
              dst |-> <<"D", "H", "V", "-", "F", "r", "a", "g", "e", "n", "-", "A", "b",
                        "b", "i", "l", "d", "u", "n", "g", "-", "0", "1", "2", ".", "j",
                        "p", "g">>] >>
    /\ x_ret.value = (3 :> <<"p", "n", "g">>) @@ (12 :> <<"j", "p", "g">>)

\* the file is named x-089.png or x-105.png, or is 78247 or 25220 bytes long
Boilerplate(f) ==
    \/ f.name = <<"x", "-", "0", "8", "9", ".", "p", "n", "g">>
    \/ f.name = <<"x", "-", "1", "0", "5", ".", "p", "n", "g">>
    \/ f.size = 78247
    \/ f.size = 25220

\* the files among the first k staged that are not boilerplate, in order
Kept(k) == SelectSeq(SubSeq(staged, 1, k), LAMBDA f : ~Boilerplate(f))

\* C11: of the staged files the loop has handled, each one with a reserved
\* name or a reserved size is deleted, was given no identifier and no catalog
\* entry, and did not advance the identifier index; each other one was moved
\* to a new name and advanced the identifier index by exactly one.
C11_DiscardFilter ==
    LET kept == Kept(x_i)
    IN  /\ image_index = Len(kept)
        /\ Len(renamed) = Len(kept)
        /\ \A j \in 1..Len(renamed) :
              /\ renamed[j].src = kept[j].name
              /\ renamed[j].dst \in DOMAIN images_dir
        /\ \A k \in 1..x_i :
              /\ staged[k].name \notin DOMAIN images_dir
              /\ Boilerplate(staged[k]) =>
                    /\ \A j \in 1..Len(renamed) : renamed[j].src # staged[k].name
                    /\ \A n \in DOMAIN images_dir : images_dir[n] # staged[k].name
        /\ DOMAIN x_filetype_map = {image_numbers[j] : j \in 1..Len(kept)}

\* x-000.png of a reserved size, x-089.jpg and x-105.png were staged with the
\* identifier 3: the first and the third were deleted, and x-089.jpg, which
\* has neither a reserved name nor a reserved size, took the identifier
C11_Witness ==
    /\ x_ret.returned
    /\ image_numbers = <<3>>
    /\ staged = << [name |-> <<"x", "-", "0", "0", "0", ".", "p", "n", "g">>, size |-> 78247],
                   [name |-> <<"x", "-", "0", "8", "9", ".", "j", "p", "g">>, size |-> 1000],
                   [name |-> <<"x", "-", "1", "0", "5", ".", "p", "n", "g">>, size |-> 1000] >>
    /\ image_index = 1
    /\ DOMAIN images_dir =
          { <<"D", "H", "V", "-", "F", "r", "a", "g", "e", "n", "-", "A", "b", "b", "i",
              "l", "d", "u", "n", "g", "-", "0", "0", "3", ".", "j", "p", "g">> }
    /\ x_ret.value = (3 :> <<"j", "p", "g">>)

\* C12 as stated: when the number of files that are not discarded differs
\* from the number of identifiers, in either direction, no error is raised for
\* it and the function goes on to return a catalog.
C12_NoErrorOnMismatch ==
    Len(Kept(Len(staged))) # Len(image_numbers) => x_pc # "IndexError"

\* C12, amended: with fewer files left than identifiers no error is raised for
\* it and the catalog returned holds the first identifiers only, the
\* remaining identifiers being unused; with more files left than identifiers
\* the first file for which no identifier is left raises IndexError, after
\* the earlier files were renamed, and no catalog is returned.
C12_ErrorOnlyWhenIdentifiersRunOut ==
    LET n == Len(Kept(Len(staged)))
    IN  /\ x_pc = "IndexError" =>
              /\ n > Len(image_numbers)
              /\ image_index = Len(image_numbers)
              /\ Len(renamed) = Len(image_numbers)
              /\ ~x_ret.returned
        /\ x_ret.returned =>
              /\ n <= Len(image_numbers)
              /\ image_index = n
              /\ DOMAIN x_ret.value = {image_numbers[j] : j \in 1..n}

\* x-000.png and x-089.jpg were staged with the one identifier 3: the first
\* became ...-003.png and the second raised IndexError and stays as it was
C12_Witness ==
    /\ x_pc = "IndexError"
    /\ image_numbers = <<3>>
    /\ Len(staged) = 2
    /\ Len(renamed) = 1
    /\ DOMAIN images_dir =
          { <<"D", "H", "V", "-", "F", "r", "a", "g", "e", "n", "-", "A", "b", "b", "i",
              "l", "d", "u", "n", "g", "-", "0", "0", "3", ".", "p", "n", "g">>,
            <<"x", "-", "0", "8", "9", ".", "j", "p", "g">> }
    /\ ~x_ret.returned

----------------------------------------------------------------------------
(* main and process_files: the claims.                                     *)

\* the functions a run calls before it opens the output file
StagesBeforeOutput ==
    <<"decompress_questions_pdf", "construct_correct_answer_list",
      "parse_text_from_pdf">>
    \o (IF pictures_pdf # "-"
        THEN <<"extract_image_numbers", "extract_images">>
        ELSE <<>>)
    \o <<"create_output_matrix">>

\* C9: in a run in which a tool failed or a stage raised, the output file is
\* never opened and no row is written, and the run does not end normally;
\* the file is opened only after every stage has been called, in order.
C9_NoOutputAfterFailure ==
    /\ failures # {} => (~tsv_open /\ tsv_rows = 0 /\ main_pc # "done")
    /\ tsv_open => stages = StagesBeforeOutput

\* C13: qpdf is run once; when it exits with 0 or 3 no error is raised for it
\* and the answer key is extracted next; when it exits with any other code
\* the run ends there: the failure is recorded, the decompression is not
\* run again and no later stage is called.
C13_ExitCodes0And3AreSuccess ==
    /\ \A k \in 2..Len(stages) : stages[k] # "decompress_questions_pdf"
    /\ (stages # <<>> /\ qpdf_rc \in {0, 3}) =>
          /\ "qpdf" \notin failures
          /\ Len(stages) = 1 => main_pc = "answers"
          /\ Len(stages) >= 2 => stages[2] = "construct_correct_answer_list"
    /\ (stages # <<>> /\ qpdf_rc \notin {0, 3}) =>
          /\ main_pc = "aborted"
          /\ failures = {"qpdf"}
          /\ stages = <<"decompress_questions_pdf">>
          /\ ~tsv_open
          /\ ~ENABLED MainNext

\* qpdf exited with 3 and the answer key was extracted after it
C13_Witness ==
    /\ qpdf_rc = 3
    /\ Len(stages) >= 2
    /\ stages[1] = "decompress_questions_pdf"
    /\ stages[2] = "construct_correct_answer_list"
    /\ "qpdf" \notin failures

----------------------------------------------------------------------------
(* parse_text_from_pdf: the claims about single lines.                     *)

\* the line starts with digits followed by a bracket and a space
IsHeaderLine(line) ==
    \E d \in 1..Len(line) :
       /\ \A k \in 1..d : line[k] \in {"0", "1", "2", "3", "4", "5", "6", "7", "8", "9"}
       /\ Len(line) >= d + 2
       /\ line[d + 1] = ")"
       /\ line[d + 2] = " "

\* the line starts with the letter and a bracket
IsLetterLine(letter, line) ==
    Len(line) >= 2 /\ line[1] = letter /\ line[2] = ")"

\* the marker that ends the state st
OwnMarker(st, line) ==
    CASE st = "ignore"   -> IsHeaderLine(line)
      [] st = "question" -> IsLetterLine("A", line)
      [] st = "answer_a" -> IsLetterLine("B", line)
      [] st = "answer_b" -> IsLetterLine("C", line)
      [] st = "answer_c" -> IsLetterLine("D", line)
      [] st = "answer_d" -> line = <<>>

\* the state after st in the cycle
Successor(st) ==
    CASE st = "ignore"   -> "question"
      [] st = "question" -> "answer_a"
      [] st = "answer_a" -> "answer_b"
      [] st = "answer_b" -> "answer_c"
      [] st = "answer_c" -> "answer_d"
      [] st = "answer_d" -> "ignore"

\* the position in the accumulator of the field the state st is filling
CurrentField(st) ==
    CASE st = "question" -> 1
      [] st = "answer_a" -> 3
      [] st = "answer_b" -> 4
      [] st = "answer_c" -> 5
      [] st = "answer_d" -> 6

\* the line just read, stripped and with its runs of spaces collapsed
LineRead == NormLine(lines'[1])

\* C14: a line read moves the state to the next state of the cycle ignore,
\* question, answer_a, answer_b, answer_c, answer_d, ignore when it is the
\* marker of the state it is read in, and only then; any other line read in
\* the question text or in an option, an out-of-order letter or a new header
\* among them, is appended after a space to the field being filled and
\* leaves the state, the section counter, the last local number and the
\* emitted records as they were.
C14_FixedCycle ==
    [][ (parse_pc = "loop" /\ parse_pc' = "loop") =>
           IF OwnMarker(state, LineRead)
           THEN state' = Successor(state)
           ELSE /\ state' = state
                /\ current_section' = current_section
                /\ last_question_number' = last_question_number
                /\ question_list' = question_list
                /\ state # "ignore" =>
                      current_q' = [current_q EXCEPT ![CurrentField(state)] =
                                       @ \o <<" ">> \o LineRead]
      ]_vars

\* after "1) x" the header " 2)  Abbildung 3:  y" was read: it went into the
\* question text and no second question was started
C14_Witness ==
    /\ state = "question"
    /\ lines = << <<" ", "2", ")", " ", " ", "A", "b", "b", "i", "l", "d", "u", "n",
                    "g", " ", "3", ":", " ", " ", "y", "\n">> >>
    /\ current_q = << <<"1", ".", "1", ".", " ", "x", " ", "2", ")", " ", "A", "b", "b",
                        "i", "l", "d", "u", "n", "g", " ", "3", ":", " ", "y">>, 0 >>
    /\ current_section = 1
    /\ last_question_number = 1
    /\ question_list = <<>>

\* C16: a line read between questions that does not start with digits, a
\* bracket and a space changes nothing: the state stays between questions,
\* the accumulator stays empty, and the section counter, the last local
\* number and the emitted records are as before the line.
C16_IgnoredLineChangesNothing ==
    [][ (parse_pc = "loop" /\ parse_pc' = "loop" /\ state = "ignore"
           /\ ~IsHeaderLine(LineRead)) =>
           /\ state' = "ignore"
           /\ current_q = <<>>
           /\ current_q' = <<>>
           /\ current_section' = current_section
           /\ last_question_number' = last_question_number
           /\ question_list' = question_list
           /\ parse_ret' = parse_ret
      ]_vars

\* one question was read and closed, and then the line "1)": it is no
\* header, and the parser is as the closing blank line left it
C16_Witness ==
    /\ parse_pc = "loop"
    /\ state = "ignore"
    /\ lines = << <<"1", ")", "\n">> >>
    /\ current_q = <<>>
    /\ Len(question_list) = 1
    /\ current_section = 1
    /\ last_question_number = 2

\* C17: a record is emitted by a blank line read in the last option and by
\* nothing else, and the end of the input, in whatever state it comes,
\* raises no error and returns the records emitted so far: a block still
\* open is dropped, so fewer records than recognised headers can be returned.
C17_OpenBlockDropped ==
    [][ /\ (parse_pc = "loop" /\ parse_pc' = "loop") =>
              IF state = "answer_d" /\ LineRead = <<>>
              THEN question_list' = Append(question_list, current_q)
              ELSE question_list' = question_list
        /\ (parse_pc = "loop" /\ parse_pc' # "loop") =>
              /\ parse_pc' = "returned"
              /\ parse_ret' = [returned |-> TRUE, value |-> question_list]
              /\ question_list' = question_list
      ]_vars

\* two headers were recognised and the input ended in the option D of the
\* second block: one record is returned
C17_Witness ==
    /\ parse_pc = "returned"
    /\ state = "answer_d"
    /\ Len(current_q) = 6
    /\ Started = 2
    /\ Len(parse_ret.value) = 1
    /\ parse_ret.value = question_list

----------------------------------------------------------------------------
(* Image references from the header to the row: the claim.                 *)

\* the integer of a question text "Abbildung <digit>: ...", and -1 for a
\* text that does not start so
ReferenceOf(f) ==
    IF /\ Len(f.text) >= 12
       /\ SubSeq(f.text, 1, 10) = <<"A", "b", "b", "i", "l", "d", "u", "n", "g", " ">>
       /\ f.text[11] \in {"0", "1", "2", "3", "4", "5", "6", "7", "8", "9"}
       /\ f.text[12] = ":"
    THEN CHOOSE n \in 0..9 :
            f.text[11] = <<"0", "1", "2", "3", "4", "5", "6", "7", "8", "9">>[n + 1]
    ELSE -1

\* C15: the record of a question whose header text is "Abbildung <n>: ..."
\* holds n as its image reference, for every n >= 0, and the row built from
\* such a record starts with the image tag for n, whose suffix the catalog
\* gave (a catalog without n ends the assembly with an error instead of a
\* row).
C15_EveryReferenceIsAnImage ==
    /\ \A i \in 1..Len(question_list) :
          ReferenceOf(blocks[i]) # -1 => question_list[i][2] = ReferenceOf(blocks[i])
    /\ \A i \in 1..Len(result) :
          LET n == ReferenceOf(blocks[i])
          IN  n # -1 =>
                 /\ n \in DOMAIN filetype_map
                 /\ StartsWith(result[i][1], ImgHtml(n, filetype_map[n]))

----------------------------------------------------------------------------
(* construct_correct_answer_list: the claim about the lines in between.    *)

\* C18: a line that is no checkbox leaves the accumulator and the list as
\* they were; an error is raised only on a fourth letter that completes a
\* group without exactly one B; and at the end of the input, with m letters
\* matched, the list returned holds m div 4 indices, the k-th being the
\* place of the B in the k-th group of four, the m mod 4 letters left in
\* the accumulator being dropped without an error.
C18_FloorOfMatches ==
    [][ /\ (ans_pc = "loop" /\ ans_pc' = "loop" /\ MatchBox(lines'[1]) = "") =>
              /\ answer_group' = answer_group
              /\ answer_list' = answer_list
        /\ (ans_pc = "loop" /\ ans_pc' = "KeyError") =>
              /\ Len(matched') % 4 = 0
              /\ CountB(SubSeq(matched', Len(matched') - 3, Len(matched'))) # 1
        /\ (ans_pc = "loop" /\ ans_pc' = "returned") =>
              /\ ans_ret'.returned
              /\ Len(ans_ret'.value) = Len(matched) \div 4
              /\ \A k \in 1..Len(ans_ret'.value) :
                    ans_ret'.value[k] = PositionOfB(GroupAt(k))
              /\ Len(answer_group) = Len(matched) % 4
        /\ ans_pc' \in {"loop", "KeyError", "returned"}
      ]_vars

\* six checkbox lines were matched, the line BT was read last, and the input
\* ended: one index is returned and the two letters left over are dropped
C18_Witness ==
    /\ ans_pc = "returned"
    /\ Len(matched) = 6
    /\ lines = << <<"B", "T", "\n">> >>
    /\ Len(answer_group) = 2
    /\ ans_ret.returned
    /\ ans_ret.value = <<1>>

====
